---- MODULE Spec2Model ----
(***************************************************************************)
(* State-machine model of the Spotter SD-card concatenation pipeline:      *)
(* getFileNames (filenames.py), getVersions (versions.py), cat and its     *)
(* line transformers (concat.py) and the group x channel loop of main      *)
(* (sd_file_parser.py).                                                    *)
(*                                                                         *)
(* Text is modelled structurally.  A field of a line is a record           *)
(*   [k, v, s]  with k = "int"   (decimal integer literal of value v),     *)
(*                   k = "float" (literal "v.0", accepted by float() only),*)
(*                   k = "txt"   (any other text s).                       *)
(* A line is [f |-> sequence of fields, cr |-> ends in "\r\n"]; the fields *)
(* are the pieces between the line's delimiters (commas in data files,     *)
(* colons in system-log files).  A filename prefix is [w, v]: w characters *)
(* spelling the number v ("0009" is [w |-> 4, v |-> 9]); v = -1 is a       *)
(* prefix that is not made of digits.  Two prefixes are the same string    *)
(* iff the records are equal.                                              *)
(***************************************************************************)
EXTENDS Integers, Sequences, FiniteSets, TLC

VARIABLES
    dir,              \* directory listing: sequence of file records
    suffixes,         \* main: the channels to concatenate
    pc,               \* control position of the run
    gvNames,          \* getVersions: fileNames (system-log files)
    gvIndex,          \* getVersions: loop index (1-based, next file)
    first,            \* getVersions: first
    sha,              \* getVersions: sha (survives loop iterations)
    version,          \* getVersions: version list / main: versions
    warnings,         \* messages printed as WARNING
    vIndex,           \* main: index of the current version group
    sIndex,           \* main: index of the current suffix
    Suffix,           \* cat: Suffix
    versionFileList,  \* cat: versionFileList
    compatibility_version, \* cat: compatibility_version
    fileNames,        \* cat: fileNames
    index,            \* cat: loop index (1-based, next file)
    outfile,          \* cat: the sink, [state, opens, closes, lines, src]
    ret,              \* cat: outcome of the call
    jobs,             \* finished cat calls of the run
    errorTxt,         \* content of error.txt
    First,            \* concat.py global First
    tr                \* a line transformer at work on its own:
                      \* [kind, variant, lines, i, st], i the next line,
                      \* st its locals

vars == <<dir, suffixes, pc, gvNames, gvIndex, first, sha, version, warnings,
          vIndex, sIndex, Suffix, versionFileList, compatibility_version,
          fileNames, index, outfile, ret, jobs, errorTxt, First, tr>>

gvVars  == <<gvNames, gvIndex, first, sha, version, warnings>>
catVars == <<Suffix, versionFileList, compatibility_version, fileNames, index,
             outfile, ret>>

----------------------------------------------------------------------------
(* Bounds of the model *)

MaxSysFiles == 3
MaxFiles == 2
MaxLines == 2

----------------------------------------------------------------------------
(* Text helpers *)

Int_(n) == [k |-> "int", v |-> n, s |-> ""]
Flt(n)  == [k |-> "float", v |-> n, s |-> ""]
Txt(t)  == [k |-> "txt", v |-> 0, s |-> t]

Ln(fs)   == [f |-> fs, cr |-> FALSE]
LnCr(fs) == [f |-> fs, cr |-> TRUE]

Pfx(w, v) == [w |-> w, v |-> v]

Last(q) == q[Len(q)]

RECURSIVE Flatten(_)
Flatten(qq) == IF qq = <<>> THEN <<>> ELSE Head(qq) \o Flatten(Tail(qq))

\* all sequences over S of length at most n
RECURSIVE SeqsUpTo(_, _)
SeqsUpTo(S, n) ==
    IF n = 0 THEN {<<>>}
    ELSE LET R == SeqsUpTo(S, n - 1)
         IN  R \cup {Append(q, x) : q \in {r \in R : Len(r) = n - 1}, x \in S}

\* float(v) succeeds
floatable(v) == v.k \in {"int", "float"}

\* int(v) succeeds
intable(v) == v.k = "int"

----------------------------------------------------------------------------
(* versions.py: the registry *)

\* ordinalVersionNumber in insertion order: sha -> (ordinal, compatibility)
ordinalVersionNumber ==
    << [sha |-> "1446ABC",  ord |-> 0,  cls |-> 0],
       [sha |-> "9BEADBE",  ord |-> 1,  cls |-> 0],
       [sha |-> "2FDC90",   ord |-> 2,  cls |-> 1],
       [sha |-> "928D2AE",  ord |-> 0,  cls |-> 0],
       [sha |-> "340b03f",  ord |-> 3,  cls |-> 1],
       [sha |-> "82755AE",  ord |-> 3,  cls |-> 1],
       [sha |-> "B218FBD",  ord |-> 4,  cls |-> 2],
       [sha |-> "E52AC4D",  ord |-> 5,  cls |-> 2],
       [sha |-> "1323D38",  ord |-> 6,  cls |-> 2],
       [sha |-> "73A3A4D0", ord |-> 7,  cls |-> 2],
       [sha |-> "6171C497", ord |-> 8,  cls |-> 2],
       [sha |-> "A98A2E52", ord |-> 9,  cls |-> 2],
       [sha |-> "A4FAAEBA", ord |-> 10, cls |-> 2],
       [sha |-> "E7C7CD94", ord |-> 11, cls |-> 2],
       [sha |-> "412432D3", ord |-> 12, cls |-> 2],
       [sha |-> "9F438E3C", ord |-> 13, cls |-> 2],
       [sha |-> "97A11B27", ord |-> 14, cls |-> 2],
       [sha |-> "2992193B", ord |-> 15, cls |-> 2],
       [sha |-> "2569BD17", ord |-> 16, cls |-> 2],
       [sha |-> "81C1B398", ord |-> 17, cls |-> 2],
       [sha |-> "93CE0B95", ord |-> 18, cls |-> 2],
       [sha |-> "FE6412C3", ord |-> 19, cls |-> 3] >>

\* sha in ordinalVersionNumber
registered(id) == \E i \in 1..Len(ordinalVersionNumber) : ordinalVersionNumber[i].sha = id

\* ordinalVersionNumber[sha][1]
compatibility(id) ==
    ordinalVersionNumber[CHOOSE i \in 1..Len(ordinalVersionNumber) :
                            ordinalVersionNumber[i].sha = id].cls

defaultVersion == 0
defaultIIRWeightType == 0

\* the loop of latestVersion over the first n keys; ordinal stays -1
RECURSIVE latestVersionLoop(_, _)
latestVersionLoop(n, latVer) ==
    IF n > Len(ordinalVersionNumber) THEN latVer
    ELSE latestVersionLoop(n + 1,
            IF ordinalVersionNumber[n].cls > -1 THEN ordinalVersionNumber[n].sha
            ELSE latVer)

\* a slip that keeps the first key found instead of the last
latestVersionKeepsFirst == ordinalVersionNumber[1].sha

latestVersion == latestVersionLoop(1, "")

----------------------------------------------------------------------------
(* filenames.py *)

\* a file of the directory: name {prefix}_{tag}.{ext} and content; a file
\* that is not readable raises a decoding error after its lines are read
File(p, t, e, r, ls) == [prefix |-> p, tag |-> t, ext |-> e, readable |-> r, lines |-> ls]

\* versionFileList=None
None == <<Pfx(0, -2)>>

exts == <<"CSV", "csv", "log">>

\* number of characters of a channel tag
tagLength(t) == IF t = "BARO" THEN 4 ELSE 3

\* name_re.match(p.name): digits, "_", three word characters, ".", three more
name_re(fl) == fl.prefix.v >= 0 /\ fl.prefix.w >= 1 /\ tagLength(fl.tag) = 3

\* path.glob(f"*_{suffix}.{ext}"): the directory's files of that tag and
\* extension, in listing order
glob(d, suffix, e) == SelectSeq(d, LAMBDA fl : fl.tag = suffix /\ fl.ext = e)

\* sorted(..., key=lambda f: int(f.name.split("_")[0])): stable insertion
RECURSIVE insertByNumber(_, _)
insertByNumber(q, fl) ==
    IF q = <<>> THEN <<fl>>
    ELSE IF Last(q).prefix.v <= fl.prefix.v THEN Append(q, fl)
    ELSE Append(insertByNumber(SubSeq(q, 1, Len(q) - 1), fl), Last(q))

\* a slip that returns the files in reverse listing order
RECURSIVE sortedDescending(_)
sortedDescending(q) ==
    IF q = <<>> THEN <<>>
    ELSE <<Last(q)>> \o sortedDescending(SubSeq(q, 1, Len(q) - 1))

RECURSIVE sortedByNumber(_)
sortedByNumber(q) ==
    IF q = <<>> THEN <<>>
    ELSE insertByNumber(sortedByNumber(SubSeq(q, 1, Len(q) - 1)), Last(q))

chained(d, suffix) == Flatten([i \in 1..Len(exts) |-> glob(d, suffix, exts[i])])

\* getFileNames: [raised, fileNames]; int() of a prefix that is not a number
\* raises ValueError inside sorted()
getFileNames(d, suffix, vfl) ==
    LET found == chained(d, suffix)
    IN  IF \E i \in 1..Len(found) : found[i].prefix.v < 0
        THEN [raised |-> TRUE, fileNames |-> <<>>]
        ELSE LET initial_fileNames == SelectSeq(sortedByNumber(found), name_re)
             IN  [raised |-> FALSE,
                  fileNames |->
                     IF vfl # None
                     THEN SelectSeq(initial_fileNames,
                             LAMBDA fl : \E i \in 1..Len(vfl) : vfl[i] = fl.prefix)
                     ELSE initial_fileNames]

----------------------------------------------------------------------------
(* versions.py: getVersions *)

ScanLimit == 80

HasSha(line) == \E i \in 1..Len(line.f) : line.f[i] = Txt("SHA")
HasIir(line) == \E i \in 1..Len(line.f) : line.f[i] = Txt("iir weight type")

\* the scan of one system-log file (the "for line in infile" loop):
\* st = [foundSha, sha, foundIIRWeightType, IIRWeightType, jline, raised, stop]
RECURSIVE scanLines(_, _, _)
scanLines(lines, i, st) ==
    IF st.stop \/ st.raised \/ i > Len(lines) THEN st
    ELSE LET line == lines[i]
             st1 ==
               IF HasSha(line)
               THEN [st EXCEPT !.sha = Last(line.f).s, !.foundSha = TRUE]
               ELSE IF HasIir(line)
               THEN IF Len(line.f) = 2 /\ intable(line.f[2])
                    THEN [st EXCEPT !.IIRWeightType = line.f[2].v,
                                    !.foundIIRWeightType = TRUE]
                    ELSE [st EXCEPT !.raised = TRUE]
               ELSE st
             st2 == [st1 EXCEPT !.jline = st.jline + 1]
         IN  scanLines(lines, i + 1,
                [st2 EXCEPT !.stop = (st2.foundSha /\ st2.foundIIRWeightType)
                                     \/ st2.jline > ScanLimit])

scanSys(fl) ==
    LET st == scanLines(fl.lines, 1,
                 [foundSha |-> FALSE, sha |-> "", foundIIRWeightType |-> FALSE,
                  IIRWeightType |-> defaultIIRWeightType, jline |-> 0,
                  raised |-> FALSE, stop |-> FALSE])
    IN  IF ~st.stop /\ ~fl.readable THEN [st EXCEPT !.raised = TRUE] ELSE st

\* the dict appended to the version list
newVersion(id, w) ==
    [sha |-> <<id>>, number |-> compatibility(id), IIRWeightType |-> w,
     fileNumbers |-> <<>>]

\* a resolution that keeps whatever identifier the file names
resolveKeepsDefault(found) == IF registered(found) THEN found ELSE ordinalVersionNumber[1].sha

\* lines 125-129: an identifier absent from the registry is replaced
resolve(found) == IF registered(found) THEN found ELSE latestVersion

\* lines 166-167
sameVersion(g, id, w) ==
    (\E i \in 1..Len(g.sha) : g.sha[i] = id) /\ g.IIRWeightType = w

\* a compatibility test that forgets the IIR weight type
compatibleByClassOnly(g, id, w) == compatibility(id) = g.number

\* a compatibility test that forgets the compatibility class
compatibleByWeightOnly(g, id, w) == g.IIRWeightType = w

\* lines 172-173
compatible(g, id, w) == compatibility(id) = g.number /\ g.IIRWeightType = w

\* a slip that also weighs a later file without identifier against the
\* latest group
groupedAlwaysCompared(v, isFirst, foundSha, id, w) ==
    IF isFirst THEN Append(v, newVersion(id, w))
    ELSE IF sameVersion(Last(v), id, w) THEN v
    ELSE IF compatible(Last(v), id, w)
    THEN [v EXCEPT ![Len(v)].sha = Append(@, id)]
    ELSE Append(v, newVersion(id, w))

\* lines 131-191: the version list after the branches over foundSha and
\* first; a later file without identifier takes none of them
grouped(v, isFirst, foundSha, id, w) ==
    IF isFirst THEN Append(v, newVersion(id, w))
    ELSE IF ~foundSha THEN v
    ELSE IF sameVersion(Last(v), id, w) THEN v
    ELSE IF compatible(Last(v), id, w)
    THEN [v EXCEPT ![Len(v)].sha = Append(@, id)]
    ELSE Append(v, newVersion(id, w))

\* a slip that appends the entry to the first group
addFileNumberToFirst(v, entry) == [v EXCEPT ![1].fileNumbers = Append(@, entry)]

\* lines 192-194: version[-1]["fileNumbers"].append(entry)
addFileNumber(v, entry) == [v EXCEPT ![Len(v)].fileNumbers = Append(@, entry)]

GetVersionsStart ==
    /\ pc = "getVersions"
    /\ LET r == getFileNames(dir, "SYS", None)
       IN  IF r.raised
           THEN /\ pc' = "raised"
                /\ UNCHANGED gvVars
           ELSE IF Len(r.fileNames) = 0
           THEN /\ pc' = "versions_ready"
                /\ sha' = latestVersion
                /\ version' = <<newVersion(latestVersion, defaultIIRWeightType)>>
                /\ UNCHANGED <<gvNames, gvIndex, first, warnings>>
           ELSE /\ pc' = "getVersions_loop"
                /\ gvNames' = r.fileNames
                /\ gvIndex' = 1
                /\ first' = TRUE
                /\ version' = <<>>
                /\ UNCHANGED <<sha, warnings>>
    /\ UNCHANGED tr
    /\ UNCHANGED <<dir, suffixes, vIndex, sIndex, jobs, errorTxt, First>>
    /\ UNCHANGED catVars

\* one iteration of "for index, filename in enumerate(fileNames)"; the last
\* iteration also returns
GetVersionsFile ==
    /\ pc = "getVersions_loop"
    /\ gvIndex <= Len(gvNames)
    /\ LET fl  == gvNames[gvIndex]
           sc  == scanSys(fl)
           id  == IF sc.foundSha THEN resolve(sc.sha)
                  ELSE IF first THEN latestVersion ELSE sha
           w   == sc.IIRWeightType
           v1  == grouped(version, first, sc.foundSha, id, w)
       IN  IF sc.raised
           THEN /\ pc' = "raised"
                /\ UNCHANGED gvVars
           ELSE /\ sha' = id
                /\ first' = FALSE
                /\ warnings' = IF first /\ ~sc.foundSha
                               THEN Append(warnings, "Cannot determine version number")
                               ELSE warnings
                /\ version' = addFileNumber(v1, fl.prefix)
                /\ gvIndex' = gvIndex + 1
                /\ pc' = IF gvIndex = Len(gvNames) THEN "versions_ready"
                         ELSE "getVersions_loop"
                /\ UNCHANGED gvNames
    /\ UNCHANGED tr
    /\ UNCHANGED <<dir, suffixes, vIndex, sIndex, jobs, errorTxt, First>>
    /\ UNCHANGED catVars

----------------------------------------------------------------------------
(* concat.py: line transformers *)

\* Millis values are counted in units of 5 ms, the greatest common divisor of
\* the two constants of process_sst_lines (4294967295 and 4294000000), so that
\* an accumulated value of two clock periods stays below 2^31.
RolloverMax == 858993459
RolloverThreshold == 858800000
MinSpan == 10
ModeLimit == 10
SstVersionLimit == 3

\* line.replace("\r", "")
stripCr(line) == [line EXCEPT !.cr = FALSE]

\* floor(a * b / c) for c > 0, without forming a * b
mulDivFloor(a, b, c) == (a \div c) * b + ((a % c) * b) \div c

\* a * b is a multiple of c
mulDivExact(a, b, c) == ((a % c) * b) % c = 0

\* the companion of an SST file: same name with SST replaced by FLT
companions(d, fl) ==
    SelectSeq(d, LAMBDA c : c.tag = "FLT" /\ c.prefix = fl.prefix /\ c.ext = fl.ext)

\* first index of the maximum of a non-empty sequence of numbers (np.argmax),
\* counted from 0
argmax(q) ==
    (CHOOSE i \in 1..Len(q) :
        /\ \A j \in 1..Len(q) : q[j] <= q[i]
        /\ \A j \in 1..(i - 1) : q[j] < q[i]) - 1

\* get_epoch_to_milis_relation: [raised, span, millis0, epochs0, millisI,
\* epochsI]; span marks the exception "Roll-over in millis".
\* It raises when the companion is missing, unreadable, has no two columns or
\* no valid row, when a row has a number in column 0 only (the mask of the
\* last column is applied twice), and when the maximum lies in the first
\* MinSpan rows.
get_epoch_to_milis_relation(d, fl) ==
    LET cs   == companions(d, fl)
        bad  == [raised |-> TRUE, span |-> FALSE, millis0 |-> 0, epochs0 |-> 0,
                 millisI |-> 1, epochsI |-> 0]
    IN  IF cs = <<>> THEN bad
        ELSE LET c    == cs[1]
                 rows == Tail(c.lines)
                 col0 == SelectSeq(rows, LAMBDA r : floatable(r.f[1]))
                 ok1(r) == Len(r.f) >= 2 /\ floatable(r.f[2])
                 data == SelectSeq(col0, ok1)
                 millis == [i \in 1..Len(data) |-> data[i].f[1].v]
                 epochs == [i \in 1..Len(data) |-> data[i].f[2].v]
             IN  IF \/ ~c.readable
                    \/ c.lines = <<>>
                    \/ Len(c.lines[1].f) < 2
                    \/ Len(data) # Len(col0)
                    \/ data = <<>>
                 THEN bad
                 ELSE LET ii == argmax(millis)
                      IN  IF ii < MinSpan THEN [bad EXCEPT !.span = TRUE]
                          ELSE [raised |-> FALSE, span |-> FALSE,
                                millis0 |-> millis[1], epochs0 |-> epochs[1],
                                millisI |-> millis[ii + 1], epochsI |-> epochs[ii + 1]]

\* millis_to_epoch of the relation rel: int() truncates the sum towards zero
millis_to_epoch(rel, milis_in) ==
    LET a == milis_in - rel.millis0
        b == rel.epochsI - rel.epochs0
        c == rel.millisI - rel.millis0
        lo == rel.epochs0 + mulDivFloor(a, b, c)
    IN  IF lo >= 0 \/ mulDivExact(a, b, c) THEN lo ELSE lo + 1

HasMillis(line) == \E i \in 1..Len(line.f) : line.f[i] = Txt("millis")

\* the body of the loop of process_sst_lines for one line:
\* st = [outlines, previousvalue, values, raised]
\* (values: the corrected value after each data line)
sstStep(rel, line, st) ==
    LET data == line.f
    IN  IF HasMillis(line)
        THEN [st EXCEPT !.outlines = Append(@, line)]
        ELSE IF Len(data) = 2
        THEN IF ~intable(data[1])
             THEN [st EXCEPT !.raised = TRUE]
             ELSE LET delta0 == data[1].v - st.previousvalue
                      delta  == IF delta0 < -RolloverThreshold
                                THEN delta0 + RolloverMax ELSE delta0
                      value  == st.previousvalue + delta
                      epoch  == millis_to_epoch(rel, value)
                  IN  [st EXCEPT !.outlines = Append(@, Ln(<<Int_(epoch), data[2]>>)),
                                 !.previousvalue = value,
                                 !.values = Append(@, value)]
        ELSE st

\* outlines = [], previousvalue = 0
sstStart == [outlines |-> <<>>, previousvalue |-> 0, values |-> <<>>, raised |-> FALSE]

\* the loop "for line in lines" of process_sst_lines
RECURSIVE sstLoop(_, _, _, _)
sstLoop(rel, lines, i, st) ==
    IF st.raised \/ i > Len(lines) THEN st
    ELSE sstLoop(rel, lines, i + 1, sstStep(rel, lines[i], st))

\* process_sst_lines(lines, infile): [raised, lines, values]
process_sst_lines(d, lines, fl) ==
    LET rel == get_epoch_to_milis_relation(d, fl)
    IN  IF rel.raised THEN [raised |-> TRUE, lines |-> <<>>, values |-> <<>>]
        ELSE LET st == sstLoop(rel, lines, 1, sstStart)
             IN  [raised |-> st.raised, lines |-> st.outlines, values |-> st.values]

RbrMaxItems == 7
SmdMinItems == 5
BsysMaxItems == 6

\* quote_bsys: the items after the fifth become one quoted item
quote_bsys(items) ==
    IF Len(items) > BsysMaxItems /\ items[3] = Txt("BSYS")
    THEN Append(SubSeq(items, 1, 5), [k |-> "quoted", v |-> Len(items) - 5, s |-> ""])
    ELSE items

toomany_rbr_items(items) ==
    Len(items) > 3 /\ items[4] = Txt("RBRDT") /\ Len(items) > RbrMaxItems

\* sortval: the numeric value of the first item, 0.0 when it is no number
sortval(firstitem) == IF floatable(firstitem) THEN firstitem.v ELSE 0

\* process_line: [key, line]; key -1 marks a discarded line
process_line(line) ==
    LET items == line.f
    IN  IF \/ ~floatable(items[1])
           \/ Len(items) < SmdMinItems
           \/ items[1].v = 0
           \/ toomany_rbr_items(items)
        THEN [key |-> -1, line |-> Ln(<<>>)]
        ELSE [key |-> sortval(items[1]), line |-> Ln(quote_bsys(items))]

\* sorted(..., key=lambda r: r[0]): stable insertion by key
RECURSIVE insertByKey(_, _)
insertByKey(q, r) ==
    IF q = <<>> THEN <<r>>
    ELSE IF Last(q).key <= r.key THEN Append(q, r)
    ELSE Append(insertByKey(SubSeq(q, 1, Len(q) - 1), r), Last(q))

RECURSIVE sortedByKey(_)
sortedByKey(q) ==
    IF q = <<>> THEN <<>>
    ELSE insertByKey(sortedByKey(SubSeq(q, 1, Len(q) - 1)), Last(q))

\* process_SMD_lines(lines)
process_SMD_lines(lines) ==
    LET sorted_results == sortedByKey([i \in 1..Len(lines) |-> process_line(lines[i])])
        kept == SelectSeq(sorted_results, LAMBDA r : r.key >= 0)
    IN  [i \in 1..Len(kept) |-> kept[i].line]

\* sd_file_parser.py, the process_SMD_lines nested in its own cat
iszero(v) == floatable(v) /\ v.v = 0

toomany_items(line) ==
    Len(line.f) > 3 /\ line.f[4] = Txt("RBRDT") /\ Len(line.f) > RbrMaxItems

\* [raised, lines]: lines[0] of an empty list raises IndexError; a first line
\* that is no number is kept as header, the others are filtered by iszero and
\* toomany_items only and sorted by sortval; lines are passed on unchanged
parser_process_SMD_lines(lines) ==
    IF lines = <<>> THEN [raised |-> TRUE, lines |-> <<>>]
    ELSE LET isHeader == ~floatable(lines[1].f[1])
             header == IF isHeader THEN <<lines[1]>> ELSE <<>>
             rest   == IF isHeader THEN Tail(lines) ELSE lines
             kept   == SelectSeq(rest, LAMBDA l : ~iszero(l.f[1]) /\ ~toomany_items(l))
             sorted_lines ==
                 sortedByKey([i \in 1..Len(kept) |->
                                 [key |-> sortval(kept[i].f[1]), line |-> kept[i]]])
         IN  [raised |-> FALSE,
              lines |-> header \o [i \in 1..Len(sorted_lines) |-> sorted_lines[i].line]]

\* line[0:3] == "FFT" or line[0:5] == "SPEC,"
IsDebugMarker(line) ==
    \/ line.f[1] = Txt("FFT")
    \/ (line.f[1] = Txt("SPEC") /\ Len(line.f) >= 2)

\* modeDetection: [raised, mode]; the file is read until a marker is seen or
\* more than ModeLimit lines were read
RECURSIVE modeLoop(_, _, _)
modeLoop(fl, i, jline) ==
    IF i > Len(fl.lines)
    THEN [raised |-> ~fl.readable, mode |-> "production"]
    ELSE IF IsDebugMarker(fl.lines[i]) THEN [raised |-> FALSE, mode |-> "debug"]
    ELSE IF jline + 1 > ModeLimit THEN [raised |-> FALSE, mode |-> "production"]
    ELSE modeLoop(fl, i + 1, jline + 1)

modeDetection(fl) == modeLoop(fl, 1, 0)

\* find_nth(haystack, ",", n) in comma numbers (comma 1 is the first comma of
\* the line, -1 is "not found")
RECURSIVE find_nth_loop(_, _, _, _)
find_nth_loop(ncommas, start, prev, n) ==
    IF start >= 0 /\ n > 1
    THEN find_nth_loop(ncommas, IF start + 1 <= ncommas THEN start + 1 ELSE -1, start, n - 1)
    ELSE [start |-> start, prev |-> prev]

find_nth(line, n) ==
    LET ncommas == Len(line.f) - 1
        start   == IF ncommas >= 1 THEN 1 ELSE -1
    IN  find_nth_loop(ncommas, start, start, n)

CounterComma == 5

\* a slip that reads the field after the nth comma
counterAfterComma(line) ==
    LET r == find_nth(line, CounterComma)
    IN  IF r.start >= 0 /\ r.start + 1 <= Len(line.f) THEN line.f[r.start + 1]
        ELSE line.f[Len(line.f)]

\* line[b + 1 : a] for a, b = find_nth(line, ",", 5): the field between the
\* two commas, or, when the line has fewer commas, its text after the last
\* comma without the final newline
counterText(line) ==
    LET r == find_nth(line, CounterComma)
    IN  IF r.start >= 0 THEN line.f[r.start]
        ELSE IF r.prev >= 1 THEN line.f[r.prev + 1]
        ELSE line.f[1]

\* line[0:8] == "SPEC_AVG" or line[0:5] == "SPECA" or line[0:8] == "SPECA_CC"
IsRecord(line) == line.f[1] \in {Txt("SPEC_AVG"), Txt("SPECA"), Txt("SPECA_CC")}
IsCC(line) == line.f[1] = Txt("SPECA_CC")

\* the body of the "for line in infile" loop of the spectral branch for one
\* line: st = [ip, prevLine, written, raised]
spcStep(line, mode, st) ==
    IF ~IsRecord(line) THEN st
    ELSE IF ~intable(counterText(line)) THEN [st EXCEPT !.raised = TRUE]
    ELSE LET ii == counterText(line).v
         IN  IF mode = "production"
             THEN [st EXCEPT !.written = Append(@, line), !.ip = ii]
             ELSE IF IsCC(line)
             THEN [st EXCEPT !.written = Append(@, line), !.ip = 0]
             ELSE IF ii < st.ip
             THEN [st EXCEPT !.written = @ \o st.prevLine, !.ip = 0]
             ELSE [st EXCEPT !.ip = ii, !.prevLine = <<line>>]

\* ip = 0, prevLine = "", and the first line of the file at position 1 written
spcStart(fl, idx) ==
    [ip |-> 0, prevLine |-> <<>>,
     written |-> IF idx = 1 /\ fl.lines # <<>> THEN <<fl.lines[1]>> ELSE <<>>,
     raised |-> FALSE]

\* the "for line in infile" loop of the spectral branch
RECURSIVE spcLoop(_, _, _, _)
spcLoop(lines, i, mode, st) ==
    IF st.raised \/ i > Len(lines) THEN st
    ELSE spcLoop(lines, i + 1, mode, spcStep(lines[i], mode, st))

\* the try block of the spectral branch for the file at position idx:
\* [written, raised]
spcFile(fl, idx, mode) ==
    LET st == spcLoop(fl.lines, 2, mode, spcStart(fl, idx))
    IN  [written |-> st.written, raised |-> st.raised \/ ~fl.readable]

\* the generic filter: keep the lines whose first field is a number
numericLines(lines) == SelectSeq(lines, LAMBDA line : floatable(line.f[1]))

\* a filter that keeps every line
allLines(lines) == lines

IsCsv(fl) == fl.ext \in {"CSV", "csv"}

\* the else block of the non-spectral branch for the file at position idx,
\* whose lines were read: [written, raised]
textFile(d, fl, idx, sfx, compat) ==
    LET header_line == fl.lines[1]
        l0 == Tail(fl.lines)
        sst == IF sfx = "SST" /\ compat < SstVersionLimit
               THEN process_sst_lines(d, l0, fl)
               ELSE [raised |-> FALSE, lines |-> l0, values |-> <<>>]
        l1 == sst.lines
        l2 == IF sfx = "SMD" THEN process_SMD_lines(l1)
              ELSE IF IsCsv(fl) THEN numericLines(l1)
              ELSE l1
        l3 == IF idx = 1 THEN <<header_line>> \o l2 ELSE l2
    IN  [written |-> IF sst.raised THEN <<>> ELSE [i \in 1..Len(l3) |-> stripCr(l3[i])],
         raised |-> sst.raised]

----------------------------------------------------------------------------
(* concat.py: cat, Outfile, log_errors *)

\* no sink yet
NoSink == [state |-> "none", opens |-> 0, closes |-> 0, lines |-> <<>>, src |-> <<>>]

Name(fl) == [prefix |-> fl.prefix, tag |-> fl.tag, ext |-> fl.ext]

\* log_errors(error): the first call of the run truncates error.txt
log_errors(txt, isFirst, error) == IF isFirst THEN <<error>> ELSE Append(txt, error)

\* Outfile.__enter__
opened(o) == [o EXCEPT !.state = "open", !.opens = @ + 1, !.lines = <<>>, !.src = <<>>]

\* a slip that leaves the file open when the with block is left
leftOpen(o) == o

\* Outfile.__exit__
closed(o) == [o EXCEPT !.state = "closed", !.closes = @ + 1]

\* Outfile.writelines of the lines of the file at position idx
written(o, lines, idx) ==
    [o EXCEPT !.lines = @ \o lines, !.src = @ \o [i \in 1..Len(lines) |-> idx]]

\* lines 38-49: list the files; return False when there is none, else open
\* the sink
CatStart ==
    /\ pc = "cat"
    /\ LET r == getFileNames(dir, Suffix, versionFileList)
       IN  IF r.raised
           THEN /\ pc' = "cat_return"
                /\ ret' = "raised"
                /\ UNCHANGED <<fileNames, index, outfile>>
           ELSE IF Len(r.fileNames) = 0
           THEN /\ pc' = "cat_return"
                /\ ret' = "False"
                /\ fileNames' = r.fileNames
                /\ UNCHANGED <<index, outfile>>
           ELSE /\ pc' = "cat_loop"
                /\ fileNames' = r.fileNames
                /\ index' = 1
                /\ outfile' = opened(outfile)
                /\ UNCHANGED ret
    /\ UNCHANGED tr
    /\ UNCHANGED <<dir, suffixes, vIndex, sIndex, jobs, errorTxt, First>>
    /\ UNCHANGED <<Suffix, versionFileList, compatibility_version>>
    /\ UNCHANGED gvVars

\* what one iteration of the loop over fileNames does:
\* [written, logged, raised]; raised is an exception that leaves cat
catFile(d, fl, idx, sfx, compat) ==
    IF sfx = "SPC"
    THEN LET m == modeDetection(fl)
         IN  IF m.raised
             THEN [written |-> <<>>, logged |-> FALSE, raised |-> TRUE]
             ELSE LET r == spcFile(fl, idx, m.mode)
                  IN  [written |-> r.written, logged |-> r.raised, raised |-> FALSE]
    ELSE IF ~fl.readable
    THEN [written |-> <<>>, logged |-> TRUE, raised |-> FALSE]
    ELSE IF fl.lines = <<>>
    THEN [written |-> <<>>, logged |-> FALSE, raised |-> FALSE]
    ELSE LET r == textFile(d, fl, idx, sfx, compat)
         IN  [written |-> r.written, logged |-> FALSE, raised |-> r.raised]

\* one iteration of "for index, filename in enumerate(fileNames)"; the sink
\* is closed when an exception leaves the with block and after the last file
CatFile ==
    /\ pc = "cat_loop"
    /\ index <= Len(fileNames)
    /\ \E fl \in {fileNames[index]} :
       \E r \in {catFile(dir, fl, index, Suffix, compatibility_version)} :
       \E o \in {written(outfile, r.written, index)} :
           /\ errorTxt' = IF r.logged THEN log_errors(errorTxt, First, Name(fl))
                          ELSE errorTxt
           /\ First' = (First /\ ~r.logged)
           /\ IF r.raised
              THEN /\ outfile' = closed(o)
                   /\ ret' = "raised"
                   /\ pc' = "cat_return"
                   /\ UNCHANGED index
              ELSE /\ index' = index + 1
                   /\ IF index = Len(fileNames)
                      THEN /\ outfile' = closed(o)
                           /\ ret' = "True"
                           /\ pc' = "cat_return"
                      ELSE /\ outfile' = o
                           /\ UNCHANGED <<ret, pc>>
    /\ UNCHANGED tr
    /\ UNCHANGED <<dir, suffixes, vIndex, sIndex, jobs>>
    /\ UNCHANGED <<Suffix, versionFileList, compatibility_version, fileNames>>
    /\ UNCHANGED gvVars

----------------------------------------------------------------------------
(* sd_file_parser.py: main *)

\* lines 479-486: a single version group is made unrestricted
MainVersions ==
    /\ pc = "versions_ready"
    /\ version' = IF Len(version) = 1
                  THEN [version EXCEPT ![1].fileNumbers = None]
                  ELSE version
    /\ vIndex' = 1
    /\ sIndex' = 1
    /\ pc' = IF suffixes = <<>> THEN "main_done" ELSE "main_loop"
    /\ UNCHANGED tr
    /\ UNCHANGED <<dir, suffixes, gvNames, gvIndex, first, sha, warnings, jobs,
                   errorTxt, First>>
    /\ UNCHANGED catVars

\* lines 503-507: the call of cat for the current group and suffix
MainCallCat ==
    /\ pc = "main_loop"
    /\ Suffix' = suffixes[sIndex]
    /\ versionFileList' = version[vIndex].fileNumbers
    /\ compatibility_version' = version[vIndex].number
    /\ fileNames' = <<>>
    /\ index' = 1
    /\ outfile' = NoSink
    /\ ret' = "none"
    /\ pc' = "cat"
    /\ UNCHANGED tr
    /\ UNCHANGED <<dir, suffixes, vIndex, sIndex, jobs, errorTxt, First>>
    /\ UNCHANGED gvVars

\* lines 503-532: cat has returned (or raised, which ends the run); move to
\* the next suffix, then to the next version group
MainAfterCat ==
    /\ pc = "cat_return"
    /\ jobs' = Append(jobs, [group |-> vIndex, suffix |-> Suffix, ret |-> ret,
                             fileNames |-> fileNames, lines |-> outfile.lines])
    /\ IF ret = "raised"
       THEN /\ pc' = "raised"
            /\ UNCHANGED <<vIndex, sIndex>>
       ELSE IF sIndex < Len(suffixes)
       THEN /\ sIndex' = sIndex + 1
            /\ pc' = "main_loop"
            /\ UNCHANGED vIndex
       ELSE /\ sIndex' = 1
            /\ vIndex' = vIndex + 1
            /\ pc' = IF vIndex < Len(version) THEN "main_loop" ELSE "main_done"
    /\ UNCHANGED tr
    /\ UNCHANGED <<dir, suffixes, errorTxt, First>>
    /\ UNCHANGED gvVars
    /\ UNCHANGED catVars

----------------------------------------------------------------------------
(* Inputs of the resolver: directories that hold system-log files only *)

SysShas == {"B218FBD", "E52AC4D", "FE6412C3", "DEADBEEF"}
SysWeights == {0, 1}

ShaLine(id) == Ln(<<Txt("SHA"), Txt(id)>>)
IirLine(w)  == Ln(<<Txt("iir weight type"), Int_(w)>>)

\* a system log: at most one SHA line followed by at most one weight line
SysContents ==
    {a \o b : a \in {<<>>} \cup {<<ShaLine(id)>> : id \in SysShas},
              b \in {<<>>} \cup {<<IirLine(w)>> : w \in SysWeights}}

\* the system logs 0001_SYS.CSV .. 000n_SYS.CSV
SysDirs(max) ==
    UNION {[1..n -> SysContents] : n \in 0..max}

SysDir(contents) ==
    [i \in 1..Len(contents) |-> File(Pfx(4, i), "SYS", "CSV", TRUE, contents[i])]

\* no transformer is run on its own
NoTransformer == [kind |-> "none", variant |-> "", lines |-> <<>>, i |-> 1, st |-> <<>>]

\* the state before the run has done anything: directory d, channel list
\* sfx, and the arguments of a direct call of cat
StartRun(d, sfx, ch, vfl, compat) ==
    /\ dir = d
    /\ suffixes = sfx
    /\ gvNames = <<>>
    /\ gvIndex = 1
    /\ first = TRUE
    /\ sha = ""
    /\ version = <<>>
    /\ warnings = <<>>
    /\ vIndex = 1
    /\ sIndex = 1
    /\ Suffix = ch
    /\ versionFileList = vfl
    /\ compatibility_version = compat
    /\ fileNames = <<>>
    /\ index = 1
    /\ outfile = NoSink
    /\ ret = "none"
    /\ jobs = <<>>
    /\ errorTxt = <<>>
    /\ First = TRUE

Start(d, sfx, ch, vfl, compat) ==
    /\ StartRun(d, sfx, ch, vfl, compat)
    /\ tr = NoTransformer

InitVersions ==
    /\ pc = "getVersions"
    /\ \E c \in SysDirs(MaxSysFiles) : Start(SysDir(c), <<>>, "", None, defaultVersion)

NextVersions == GetVersionsStart \/ GetVersionsFile

SpecVersions == InitVersions /\ [][NextVersions]_vars

----------------------------------------------------------------------------
(* Inputs of cat: data files 0001_XXX.CSV .. 000n_XXX.CSV of one channel *)

Header == LnCr(<<Txt("millis"), Txt("epoch")>>)

\* sample lines of each channel
Lines(ch) ==
    CASE ch = "FLT" -> {Header,
                        LnCr(<<Int_(200), Int_(101)>>),
                        Ln(<<Int_(400), Int_(102)>>)}
      [] ch = "SST" -> {Ln(<<Txt("millis"), Txt("temperature")>>),
                        Ln(<<Int_(1000), Flt(20)>>),
                        Ln(<<Txt("abc"), Flt(20)>>)}
      [] ch = "SMD" -> {Ln(<<Txt("epoch"), Txt("link"), Txt("log type"), Txt("data")>>),
                        Ln(<<Flt(5), Int_(1), Txt("RBR"), Txt("RBRDT"), Int_(7)>>),
                        Ln(<<Flt(2), Int_(1), Txt("RBR"), Txt("RBRDT"), Int_(8)>>)}
      [] ch = "SPC" -> {Ln(<<Txt("SPEC"), Int_(0)>>),
                        Ln(<<Txt("SPECA"), Int_(0), Int_(0), Int_(0), Int_(5), Int_(0)>>),
                        Ln(<<Txt("SPECA"), Int_(0), Int_(0), Int_(0), Txt("x"), Int_(0)>>)}

\* contents of one file: [readable, lines].  Only the spectral branch reads a
\* file line by line, so only there the lines before a read error matter.
Contents(ch) ==
    LET qs == SeqsUpTo(Lines(ch), MaxLines)
    IN  {[readable |-> TRUE, lines |-> q] : q \in qs}
        \cup (IF ch = "SPC" THEN {[readable |-> FALSE, lines |-> q] : q \in qs}
              ELSE {[readable |-> FALSE, lines |-> <<>>]})

DataDirs(ch, max) == UNION {[1..n -> Contents(ch)] : n \in 0..max}

DataDir(ch, cs) ==
    [i \in 1..Len(cs) |-> File(Pfx(4, i), ch, "CSV", cs[i].readable, cs[i].lines)]

\* an FLT file whose largest millis value is its second sample
ShortFlt == <<Header, Ln(<<Int_(200), Int_(101)>>), Ln(<<Int_(400), Int_(102)>>)>>

\* an FLT file of MinSpan + 1 samples with increasing millis
LongFlt == <<Header>> \o [i \in 1..(MinSpan + 1) |-> Ln(<<Int_(200 * i), Int_(100 + i)>>)]

CompanionKinds == {"none", "short", "long"}

\* the FLT companions of n SST files
CompanionDir(n, kind) ==
    IF kind = "none" THEN <<>>
    ELSE [i \in 1..n |-> File(Pfx(4, i), "FLT", "CSV", TRUE,
                              IF kind = "short" THEN ShortFlt ELSE LongFlt)]

\* file names of channel ch: prefixes "1", "01", "0001" and "0003", every
\* listed extension, and for LOC also the tag GPS
Prefixes == {Pfx(1, 1), Pfx(2, 1), Pfx(4, 1), Pfx(4, 3)}
Tags(ch) == IF ch = "LOC" THEN {"LOC", "GPS"} ELSE {ch}
Names(ch) ==
    {[prefix |-> p, tag |-> t, ext |-> exts[e]] :
        p \in Prefixes, t \in Tags(ch), e \in 1..Len(exts)}

\* a header, a data line, and a second header in the body
MixedLines == <<Header, LnCr(<<Int_(200), Int_(101)>>), Header>>

\* directories of up to max files with different names, in any listing order
NamedDirs(ch, max) ==
    {q \in SeqsUpTo(Names(ch), max) : \A i, j \in 1..Len(q) : i # j => q[i] # q[j]}

NamedDir(q) ==
    [i \in 1..Len(q) |-> File(q[i].prefix, q[i].tag, q[i].ext, TRUE, MixedLines)]

\* directories of up to max files with different names out of names, in any
\* listing order
DirsOf(names, max) ==
    {q \in SeqsUpTo(names, max) : \A i, j \in 1..Len(q) : i # j => q[i] # q[j]}

\* FLT files of extension CSV with the prefixes "1", "01", "0001", "0003"
CsvNames == {[prefix |-> p, tag |-> "FLT", ext |-> "CSV"] : p \in Prefixes}

\* restriction lists: the empty list, the prefix "0001", and the prefixes
\* "0001" and "0003"
Restrictions == {<<>>, <<Pfx(4, 1)>>, <<Pfx(4, 1), Pfx(4, 3)>>}

\* FLT files with the prefixes "abc" and "0001"
BadNames ==
    {[prefix |-> p, tag |-> "FLT", ext |-> e] :
        p \in {Pfx(3, -1), Pfx(4, 1)}, e \in {"CSV", "log"}}

InitCat ==
    /\ pc = "cat"
    /\ \/ \E ch \in {"FLT", "SMD", "SPC"} : \E cs \in DataDirs(ch, MaxFiles) :
             Start(DataDir(ch, cs), <<>>, ch, None, defaultVersion)
       \/ \E cs \in DataDirs("FLT", MaxFiles) : \E p \in 1..MaxFiles :
             Start(DataDir("FLT", cs), <<>>, "FLT", <<Pfx(4, p)>>, defaultVersion)
       \/ \E cs \in DataDirs("SST", MaxFiles) : \E kind \in CompanionKinds :
          \E compat \in {2, 3} :
             Start(DataDir("SST", cs) \o CompanionDir(Len(cs), kind), <<>>,
                   "SST", None, compat)
       \/ \E ch \in {"FLT", "LOC"} : \E q \in NamedDirs(ch, MaxFiles) :
             Start(NamedDir(q), <<>>, ch, None, defaultVersion)
       \/ \E q \in DirsOf(CsvNames, MaxFiles) : \E vfl \in Restrictions :
             Start(NamedDir(q), <<>>, "FLT", vfl, defaultVersion)
       \/ \E q \in DirsOf(BadNames, MaxFiles) :
             Start(NamedDir(q), <<>>, "FLT", None, defaultVersion)

NextCat == CatStart \/ CatFile

SpecCat == InitCat /\ [][NextCat]_vars

----------------------------------------------------------------------------
(* The line transformers on their own, one line per step where the code    *)
(* loops over the lines of a file                                          *)

MaxRecords == 6
MaxReadings == 3
MaxSmdLines == 5

\* spectral record lines with ensemble counter c in the fifth field
SpcRecord(c) == Ln(<<Txt("SPECA"), Int_(0), Int_(0), Int_(0), Int_(c), Int_(0)>>)
SpcCC == Ln(<<Txt("SPECA_CC"), Int_(0), Int_(0), Int_(0), Int_(0), Int_(0)>>)
SpcCounters == {5, 6, 7, 9}
SpcLines == {SpcRecord(c) : c \in SpcCounters} \cup {SpcCC}

\* first lines of a debug file and of a production file
DebugHeader == Ln(<<Txt("SPEC"), Int_(0)>>)
ProductionHeader == Ln(<<Txt("type"), Txt("a")>>)

SpcFiles ==
    {File(Pfx(4, 1), "SPC", "CSV", TRUE, <<DebugHeader>> \o q) :
        q \in SeqsUpTo(SpcLines, MaxRecords)}
    \cup {File(Pfx(4, 1), "SPC", "CSV", TRUE, <<ProductionHeader>> \o q) :
        q \in SeqsUpTo(SpcLines, MaxLines)}

\* raw millis readings, in units of 5 ms: 5, 10, 1000000 and 4294967290
Readings == {1, 2, 200000, 858993458}
SstLine_(r) == Ln(<<Int_(r), Flt(20)>>)

\* smart-mooring lines: timestamp 0, no number, 5.0 (twice, told apart by
\* the last field), 2.0, -3.0, too few fields, RBRDT with too many fields
SmdZero  == Ln(<<Int_(0), Int_(1), Txt("RBR"), Txt("RBRDT"), Int_(7)>>)
SmdBad   == Ln(<<Txt("bad"), Int_(1), Txt("RBR"), Txt("RBRDT"), Int_(7)>>)
SmdFiveA == Ln(<<Flt(5), Int_(1), Txt("RBR"), Txt("RBRDT"), Int_(1)>>)
SmdFiveB == Ln(<<Flt(5), Int_(1), Txt("RBR"), Txt("RBRDT"), Int_(2)>>)
SmdTwo   == Ln(<<Flt(2), Int_(1), Txt("RBR"), Txt("RBRDT"), Int_(7)>>)
SmdNeg   == Ln(<<Flt(-3), Int_(1), Txt("RBR"), Txt("RBRDT"), Int_(7)>>)
SmdShort == Ln(<<Flt(4), Int_(1)>>)
SmdLong  == Ln(<<Flt(6), Int_(1), Txt("RBR"), Txt("RBRDT"), Int_(1), Int_(2),
                 Int_(3), Int_(4)>>)

SmdLines_ ==
    {SmdZero, SmdBad, SmdFiveA, SmdFiveB, SmdTwo, SmdNeg, SmdShort, SmdLong}

Idle(d) == StartRun(d, <<>>, "", None, defaultVersion)

InitTransform ==
    /\ pc = "transform"
    /\ \/ \E fl \in SpcFiles :
             /\ Idle(<<fl>>)
             /\ tr = [kind |-> "SPC", variant |-> modeDetection(fl).mode,
                      lines |-> fl.lines, i |-> 2, st |-> spcStart(fl, 1)]
       \/ \E q \in SeqsUpTo(Readings, MaxReadings) :
             LET ls == [i \in 1..Len(q) |-> SstLine_(q[i])]
                 fl == File(Pfx(4, 1), "SST", "CSV", TRUE,
                            <<Ln(<<Txt("millis"), Txt("temperature")>>)>> \o ls)
             IN  /\ Idle(<<fl>> \o CompanionDir(1, "long"))
                 /\ tr = [kind |-> "SST", variant |-> "", lines |-> ls, i |-> 1,
                          st |-> sstStart]
       \/ \E q \in SeqsUpTo(SmdLines_, MaxSmdLines) : \E v \in {"concat", "parser"} :
             /\ Idle(<<>>)
             /\ tr = [kind |-> "SMD", variant |-> v, lines |-> q, i |-> 1,
                      st |-> [raised |-> FALSE, lines |-> <<>>]]

\* one iteration of "for line in infile" of the spectral branch of cat
SpcLine ==
    /\ tr.kind = "SPC"
    /\ tr.i <= Len(tr.lines)
    /\ ~tr.st.raised
    /\ tr' = [tr EXCEPT !.i = @ + 1,
                        !.st = spcStep(tr.lines[tr.i], tr.variant, tr.st)]
    /\ UNCHANGED <<dir, suffixes, pc, vIndex, sIndex, jobs, errorTxt, First>>
    /\ UNCHANGED gvVars
    /\ UNCHANGED catVars

\* one iteration of "for line in lines" of process_sst_lines
SstLine ==
    /\ tr.kind = "SST"
    /\ tr.i <= Len(tr.lines)
    /\ ~tr.st.raised
    /\ \E rel \in {get_epoch_to_milis_relation(dir, dir[1])} :
          /\ ~rel.raised
          /\ tr' = [tr EXCEPT !.i = @ + 1, !.st = sstStep(rel, tr.lines[tr.i], tr.st)]
    /\ UNCHANGED <<dir, suffixes, pc, vIndex, sIndex, jobs, errorTxt, First>>
    /\ UNCHANGED gvVars
    /\ UNCHANGED catVars

\* process_SMD_lines of concat.py
SmdLines ==
    /\ tr.kind = "SMD"
    /\ tr.variant = "concat"
    /\ tr.i = 1
    /\ tr' = [tr EXCEPT !.i = Len(tr.lines) + 2,
                        !.st = [raised |-> FALSE, lines |-> process_SMD_lines(tr.lines)]]
    /\ UNCHANGED <<dir, suffixes, pc, vIndex, sIndex, jobs, errorTxt, First>>
    /\ UNCHANGED gvVars
    /\ UNCHANGED catVars

\* process_SMD_lines of sd_file_parser.py
SmdLinesParser ==
    /\ tr.kind = "SMD"
    /\ tr.variant = "parser"
    /\ tr.i = 1
    /\ tr' = [tr EXCEPT !.i = Len(tr.lines) + 2,
                        !.st = parser_process_SMD_lines(tr.lines)]
    /\ UNCHANGED <<dir, suffixes, pc, vIndex, sIndex, jobs, errorTxt, First>>
    /\ UNCHANGED gvVars
    /\ UNCHANGED catVars

NextTransform == SpcLine \/ SstLine \/ SmdLines \/ SmdLinesParser

SpecTransform == InitTransform /\ [][NextTransform]_vars

----------------------------------------------------------------------------
(* Inputs of main *)

\* system logs of a run: no identifier, a class-2 identifier, the class-3 one
MainSysContents == {<<>>, <<ShaLine("B218FBD")>>, <<ShaLine("FE6412C3")>>}

MainSysDirs(max) == UNION {[1..n -> MainSysContents] : n \in 0..max}

\* n SST files of one data line each
PlainSst(n) ==
    [i \in 1..n |-> File(Pfx(4, i), "SST", "CSV", TRUE,
                         <<Ln(<<Txt("millis"), Txt("temperature")>>),
                           Ln(<<Int_(1000), Flt(20)>>)>>)]

InitMain ==
    /\ pc = "getVersions"
    /\ \/ \E cs \in DataDirs("FLT", MaxFiles) :
             Start(DataDir("FLT", cs), <<"FLT">>, "", None, defaultVersion)
       \/ \E cs \in DataDirs("SST", MaxFiles) :
             Start(SysDir(<<<<ShaLine("B218FBD")>>>>) \o DataDir("SST", cs)
                      \o CompanionDir(Len(cs), "long"),
                   <<"SST", "FLT">>, "", None, defaultVersion)
       \/ \E sys \in MainSysDirs(MaxFiles) : \E n \in 0..(MaxFiles + 1) :
          \E sfx \in {<<"FLT">>, <<"SST", "FLT">>} :
             Start(SysDir(sys) \o PlainSst(n) \o CompanionDir(n, "short"),
                   sfx, "", None, defaultVersion)

Next ==
    \/ GetVersionsStart
    \/ GetVersionsFile
    \/ MainVersions
    \/ MainCallCat
    \/ CatStart
    \/ CatFile
    \/ MainAfterCat

Spec == InitMain /\ [][Next]_vars

----------------------------------------------------------------------------
(* Claims about getVersions *)

Range(q) == {q[i] : i \in 1..Len(q)}

\* the highest compatibility class of the registry
MaxClass ==
    CHOOSE c \in {r.cls : r \in Range(ordinalVersionNumber)} :
        \A r \in Range(ordinalVersionNumber) : r.cls <= c

SysFilesOf(d) == SelectSeq(d, LAMBDA fl : fl.tag = "SYS")

\* C8: with no system-log file, getVersions returns exactly one group, of the
\* registry's highest compatibility class, IIR weight type 0 and an empty
\* fileNumbers list.
C8_ImplicitGroup ==
    (pc = "versions_ready" /\ SysFilesOf(dir) = <<>>) =>
        /\ Len(version) = 1
        /\ version[1].number = MaxClass
        /\ version[1].IIRWeightType = 0
        /\ version[1].fileNumbers = <<>>

C8_Witness == pc = "versions_ready" /\ SysFilesOf(dir) = <<>> /\ Len(version) = 1

\* the grouping rule for one file: a system-log file after the first in which
\* an identifier was found stays in the latest group iff (a) its resolved identifier is a member of the
\* group and the weight types agree or (b) its (class, weight type) pair is the
\* group's pair, and then the identifier is a member of the group afterwards;
\* otherwise a new group holding just this file is appended.
C9_Step ==
    LET fl == gvNames[gvIndex]
        sc == scanSys(fl)
        g  == Last(version)
        id == sha'
        w  == sc.IIRWeightType
        a  == id \in Range(g.sha) /\ w = g.IIRWeightType
        b  == compatibility(id) = g.number /\ w = g.IIRWeightType
        g1 == Last(version')
    IN  (pc = "getVersions_loop" /\ pc' # "raised" /\ gvIndex' = gvIndex + 1
            /\ ~first /\ sc.foundSha)
        => IF a \/ b
           THEN /\ Len(version') = Len(version)
                /\ SubSeq(version', 1, Len(version) - 1) = SubSeq(version, 1, Len(version) - 1)
                /\ Range(g1.sha) = Range(g.sha) \cup {id}
                /\ g1.number = g.number
                /\ g1.IIRWeightType = g.IIRWeightType
                /\ g1.fileNumbers = Append(g.fileNumbers, fl.prefix)
           ELSE /\ Len(version') = Len(version) + 1
                /\ SubSeq(version', 1, Len(version)) = version
                /\ g1 = [sha |-> <<id>>, number |-> compatibility(id),
                         IIRWeightType |-> w, fileNumbers |-> <<fl.prefix>>]

\* C9: every step of getVersions over a later system-log file with an
\* identifier follows the grouping rule: it joins the latest group iff (a) or
\* (b) holds, and opens a new group otherwise.
C9_Grouping == [][C9_Step]_vars

\* a later file with an identifier joined the latest group by rule (b) only,
\* and another opened a new group
C9_Witness ==
    /\ pc = "versions_ready"
    /\ Len(version) = 2
    /\ Len(version[1].sha) = 2
    /\ Len(version[1].fileNumbers) = 2

\* C10: an identifier absent from the registry resolves to the highest
\* compatibility class; so two system logs, the first with a registered
\* class-2 identifier and the second with an unregistered one, give one group
\* iff the resolved classes and the weight types are equal, else two groups.
C10_Unregistered ==
    LET s1 == scanSys(gvNames[1])
        s2 == scanSys(gvNames[2])
    IN  (/\ pc = "versions_ready"
         /\ Len(gvNames) = 2
         /\ s1.foundSha /\ registered(s1.sha) /\ compatibility(s1.sha) = 2
         /\ s2.foundSha /\ ~registered(s2.sha))
        => /\ Last(version).number = MaxClass
           /\ Len(version) = IF 2 = MaxClass /\ s1.IIRWeightType = s2.IIRWeightType
                             THEN 1 ELSE 2

C10_Witness ==
    /\ pc = "versions_ready"
    /\ Len(gvNames) = 2
    /\ scanSys(gvNames[1]).foundSha /\ scanSys(gvNames[1]).sha = "B218FBD"
    /\ scanSys(gvNames[2]).foundSha /\ scanSys(gvNames[2]).sha = "DEADBEEF"
    /\ scanSys(gvNames[1]).IIRWeightType = scanSys(gvNames[2]).IIRWeightType
    /\ Len(version) = 2

\* one step of getVersions over a system-log file whose identifier is absent
\* from the registry prints a warning
C11_Step ==
    LET sc == scanSys(gvNames[gvIndex])
    IN  (pc = "getVersions_loop" /\ pc' # "raised" /\ gvIndex' = gvIndex + 1
            /\ sc.foundSha /\ ~registered(sc.sha))
        => /\ sha' = latestVersion
           /\ Len(warnings') > Len(warnings)

\* C11: whenever getVersions meets an identifier that is absent from the
\* registry, it substitutes the highest compatibility class and emits a
\* warning, not only when the first file has no identifier at all.
C11_UnknownWarned == [][C11_Step]_vars

----------------------------------------------------------------------------
(* Claims about cat and main *)

RECURSIVE Count(_, _)
Count(q, x) ==
    IF q = <<>> THEN 0 ELSE (IF Head(q) = x THEN 1 ELSE 0) + Count(Tail(q), x)

FirstLine(fl) == IF fl.lines = <<>> THEN <<>> ELSE <<fl.lines[1]>>
Body(fl) == IF fl.lines = <<>> THEN <<>> ELSE Tail(fl.lines)
StripAll(q) == [i \in 1..Len(q) |-> stripCr(q[i])]

\* positions of the listed files that were read and are not empty
ReadFiles == {i \in 1..Len(fileNames) : fileNames[i].readable /\ fileNames[i].lines # <<>>}

\* C1: when at least one listed file is read and non-empty, the output starts
\* with the first line of the first such file (the job's single header), also
\* when the file at list position 0 is empty or unreadable.
C1_HeaderOfFirstProcessed ==
    (pc = "cat_return" /\ ret = "True" /\ Suffix # "SPC" /\ ReadFiles # {}) =>
        LET k == CHOOSE i \in ReadFiles : \A j \in ReadFiles : i <= j
        IN  /\ outfile.lines # <<>>
            /\ outfile.src[1] = k
            /\ outfile.lines[1] = stripCr(fileNames[k].lines[1])

\* the files of channel ch in directory d
ChannelFiles(d, ch) == SelectSeq(d, LAMBDA fl : fl.tag = ch)

Ascending(files) ==
    \A i, j \in 1..Len(files) : i < j => files[i].prefix.v <= files[j].prefix.v

\* the case of C2: no system log, every FLT file readable, every body line
\* starting with a number
C2_Case ==
    /\ SysFilesOf(dir) = <<>>
    /\ ChannelFiles(dir, "FLT") # <<>>
    /\ \A fl \in Range(ChannelFiles(dir, "FLT")) :
          /\ fl.readable
          /\ \A i \in 2..Len(fl.lines) : floatable(fl.lines[i].f[1])

C2_Job(j) == j.suffix = "FLT"

Failed(i) ==
    LET r == catFile(dir, fileNames[i], i, Suffix, compatibility_version)
    IN  r.raised \/ r.logged

\* C3: a failure while reading or transforming one file is caught, logged in
\* one line for that file, and the later files of the job are still processed.
C3_FailureIsolated ==
    pc = "cat_return" =>
        \A i \in 1..Len(fileNames) : (i <= index /\ Failed(i)) =>
            /\ Count(errorTxt, Name(fileNames[i])) = 1
            /\ ret = "True"
            /\ index = Len(fileNames) + 1

\* C4: no line of a file that was logged as corrupt is in the output.
C4_CorruptFileSkipped ==
    pc = "cat_return" =>
        \A i \in 1..Len(fileNames) :
            Count(errorTxt, Name(fileNames[i])) > 0 => Count(outfile.src, i) = 0

\* C5: when the fit of the companion of the SST file being processed has an
\* insufficient span, neither cat nor main is left by an exception.
C5_SpanNotFatal ==
    (/\ Suffix = "SST"
     /\ pc \in {"cat_loop", "cat_return", "raised"}
     /\ index <= Len(fileNames)
     /\ compatibility_version < SstVersionLimit
     /\ fileNames[index].readable
     /\ Len(fileNames[index].lines) > 0
     /\ get_epoch_to_milis_relation(dir, fileNames[index]).span)
    => (ret # "raised" /\ pc # "raised")

\* a body line that is malformed: an SST line of two fields whose first is no
\* integer, or a spectral record whose counter is no integer
Malformed(ch, line) ==
    \/ ch = "SST" /\ ~HasMillis(line) /\ Len(line.f) = 2 /\ ~intable(line.f[1])
    \/ ch = "SPC" /\ IsRecord(line) /\ ~intable(counterText(line))

WithoutMalformed(ch, fl) ==
    [fl EXCEPT !.lines = FirstLine(fl) \o SelectSeq(Body(fl), LAMBDA l : ~Malformed(ch, l))]

LinesFrom(i) ==
    LET at == SelectSeq([j \in 1..Len(outfile.lines) |-> j], LAMBDA j : outfile.src[j] = i)
    IN  [j \in 1..Len(at) |-> outfile.lines[at[j]]]

\* C6: a malformed line is dropped without an exception and without a line in
\* the error log, and the file's other lines are processed as if it were absent.
C6_MalformedLineDropped ==
    (pc = "cat_return" /\ Suffix \in {"SST", "SPC"}) =>
        \A i \in 1..Len(fileNames) :
            LET fl    == fileNames[i]
                clean == catFile(dir, WithoutMalformed(Suffix, fl), i, Suffix,
                                 compatibility_version)
            IN  (/\ i <= index
                 /\ (Suffix = "SST" => compatibility_version < SstVersionLimit)
                 /\ WithoutMalformed(Suffix, fl) # fl
                 /\ ~clean.raised /\ ~clean.logged)
                => /\ ret = "True"
                   /\ Count(errorTxt, Name(fl)) = 0
                   /\ LinesFrom(i) = clean.written

\* C7: cat returns False exactly when no file is listed, and then opens no
\* sink; whenever a file is listed it returns True.
C7_ReturnValue ==
    pc = "cat_return" =>
        LET listed == getFileNames(dir, Suffix, versionFileList).fileNames
        IN  /\ (ret = "False") <=> (listed = <<>>)
            /\ (ret = "False") => (outfile.opens = 0 /\ outfile.state = "none")
            /\ (listed # <<>>) => (ret = "True")

\* the header that cat retains: the first line of the file at position 1
RetainedHeader(j) == j = 1 /\ outfile.src[1] = 1

\* C12: every body line written for a channel other than SPC and SMD starts
\* with a field that parses as a number and holds no carriage return, whatever
\* the extension of the source file.
C12_BodyLinesNumeric ==
    (pc = "cat_return" /\ Suffix \notin {"SPC", "SMD"}) =>
        \A j \in 1..Len(outfile.lines) :
            ~RetainedHeader(j) =>
                /\ floatable(outfile.lines[j].f[1])
                /\ ~outfile.lines[j].cr

----------------------------------------------------------------------------
(* Claims about the line transformers *)

\* the ensemble counter of a qualifying line
Counter(line) == counterText(line).v

\* a qualifying line that is no SPECA_CC line
IsEnsembleLine(line) == IsRecord(line) /\ ~IsCC(line)

\* the buffered line is the last ensemble line read before position i
Buffered(i) ==
    /\ tr.st.prevLine # <<>>
    /\ \E p \in 2..(i - 1) :
          /\ tr.lines[p] = tr.st.prevLine[1]
          /\ IsEnsembleLine(tr.lines[p])
          /\ \A q \in (p + 1)..(i - 1) : ~IsEnsembleLine(tr.lines[q])

\* one line of a debug file is read: a SPECA_CC line is written at once, and
\* a line whose counter is below that of the buffered line makes the
\* buffered line be written
C13_Step ==
    LET line == tr.lines[tr.i]
    IN  (tr.kind = "SPC" /\ tr.variant = "debug" /\ tr.i <= Len(tr.lines)
            /\ tr'.i = tr.i + 1)
        => /\ IsCC(line) => tr'.st.written = Append(tr.st.written, line)
           /\ (IsEnsembleLine(line) /\ Buffered(tr.i)
                  /\ Counter(line) < Counter(tr.st.prevLine[1]))
              => tr'.st.written = tr.st.written \o tr.st.prevLine

\* C13: in debug mode a SPECA_CC line is written as soon as it is read, and
\* the line buffered before a counter drop is written at the drop, also when
\* a SPECA_CC line lies between the two (counters 5, 6, 7, CC, 6, 9: the
\* line of counter 7 is written when the second 6 is read).
C13_DropAcrossCC == [][C13_Step]_vars

\* position j of the file ends an ensemble: an ensemble line followed by no
\* qualifying line, by a SPECA_CC line or by a line of lower counter
EndsEnsemble(lines, j) ==
    /\ IsEnsembleLine(lines[j])
    /\ LET later == {q \in (j + 1)..Len(lines) : IsRecord(lines[q])}
       IN  \/ later = {}
           \/ LET n == CHOOSE q \in later : \A r \in later : q <= r
              IN  IsCC(lines[n]) \/ Counter(lines[n]) < Counter(lines[j])

\* the last lines of the ensembles of a file, in file order
EnsembleEnds(lines) ==
    LET at == SelectSeq([j \in 1..Len(lines) |-> j],
                        LAMBDA j : j >= 2 /\ EndsEnsemble(lines, j))
    IN  [k \in 1..Len(at) |-> lines[at[k]]]

\* C14: in debug mode the ensemble lines written for one file are exactly the
\* last line of every ensemble, the final ensemble of the file and
\* single-line ensembles included.
C14_LastOfEveryEnsemble ==
    (tr.kind = "SPC" /\ tr.variant = "debug" /\ tr.i > Len(tr.lines)
        /\ ~tr.st.raised)
    => SelectSeq(Tail(tr.st.written), IsEnsembleLine) = EnsembleEnds(tr.lines)

\* the raw readings of the file
Raw == [i \in 1..Len(tr.lines) |-> tr.lines[i].f[1].v]

\* the clock wrapped wherever a reading is below the one before it, and it
\* was then within the last 193459 units of its period
WrapsOnly(q) ==
    \A i \in 1..(Len(q) - 1) : q[i + 1] < q[i] => q[i] > RolloverThreshold

\* C15: for readings of an increasing clock that wraps, the corrected values
\* (previousvalue after each data line) never decrease.
C15_CorrectedNonDecreasing ==
    (tr.kind = "SST" /\ WrapsOnly(Raw)) =>
        \A i, j \in 1..Len(tr.st.values) :
            i < j => tr.st.values[i] <= tr.st.values[j]

\* process_SMD_lines has returned
SmdDone == tr.kind = "SMD" /\ tr.i = Len(tr.lines) + 2 /\ ~tr.st.raised

\* the four reasons for which a smart-mooring line is to be discarded
Invalid(line) ==
    \/ ~floatable(line.f[1])
    \/ Len(line.f) < 5
    \/ line.f[1].v = 0
    \/ (Len(line.f) >= 4 /\ line.f[4] = Txt("RBRDT") /\ Len(line.f) > 7)

\* the line is in the sequence out, up to the quoting of the BSYS payload
Shown(line, out) == \E k \in 1..Len(out) : out[k].f = quote_bsys(line.f)

\* C16: process_SMD_lines discards a line iff its first field is no number,
\* it has fewer than 5 fields, its timestamp is zero, or it is an RBRDT
\* record of more than 7 fields; every other line is in the output.
C16_DiscardsExactlyInvalid ==
    SmdDone =>
        \A j \in 1..Len(tr.lines) :
            Invalid(tr.lines[j]) <=> ~Shown(tr.lines[j], tr.st.lines)

\* the lines of q with timestamp t
At(q, t) == SelectSeq(q, LAMBDA l : floatable(l.f[1]) /\ l.f[1].v = t)

\* C17: the kept lines are output in ascending order of numeric timestamp,
\* lines of equal timestamp in input order; timestamps [0, bad, 5.0, 2.0, 5.0]
\* give [2.0, 5.0, 5.0] with the two 5.0 lines in input order.
C17_StableAscending ==
    SmdDone =>
        LET out  == tr.st.lines
            kept == SelectSeq(tr.lines, LAMBDA l : Shown(l, out))
        IN  /\ \A k \in 1..Len(out) : floatable(out[k].f[1])
            /\ \A a, b \in 1..Len(out) : a < b => out[a].f[1].v <= out[b].f[1].v
            /\ \A k \in 1..Len(out) :
                  At(out, out[k].f[1].v)
                     = [i \in 1..Len(At(kept, out[k].f[1].v)) |->
                           Ln(quote_bsys(At(kept, out[k].f[1].v)[i].f))]
            /\ (tr.lines = <<SmdZero, SmdBad, SmdFiveA, SmdTwo, SmdFiveB>>)
                  => out = <<SmdTwo, SmdFiveA, SmdFiveB>>

\* C18: a first line that is no number is the first line of the output, and
\* the other lines of the output are exactly the valid ones of the rest.
C18_HeaderKeptRestFiltered ==
    (SmdDone /\ tr.lines # <<>> /\ ~floatable(tr.lines[1].f[1])) =>
        LET out == tr.st.lines
        IN  /\ out # <<>>
            /\ out[1].f = tr.lines[1].f
            /\ \A j \in 2..Len(tr.lines) :
                  Invalid(tr.lines[j]) <=> ~Shown(tr.lines[j], Tail(out))
            /\ \A k \in 2..Len(out) : ~Invalid(out[k])

----------------------------------------------------------------------------
(* Claims about getFileNames *)

\* cat has listed its files
Listed == pc \in {"cat_loop", "cat_return"} /\ ret # "raised"

\* C19: the file list getFileNames returns is strictly increasing in sequence
\* number, also when two files of one number exist.
C19_StrictlyIncreasing ==
    Listed =>
        \A i, j \in 1..Len(fileNames) :
            i < j => fileNames[i].prefix.v < fileNames[j].prefix.v

\* C20: for channel LOC the list also holds the files of tag GPS.
C20_SynonymListed ==
    (Listed /\ Suffix = "LOC" /\ versionFileList = None) =>
        \A k \in 1..Len(dir) :
            (dir[k].tag = "GPS" /\ name_re(dir[k])) =>
                \E i \in 1..Len(fileNames) : fileNames[i] = dir[k]

----------------------------------------------------------------------------
(* Claims about the restriction list and about badly named files *)

\* the file of the directory is among the files listed
InList(fl) == \E i \in 1..Len(fileNames) : fileNames[i] = fl

\* C21: under a restriction list, the files returned are exactly the files of
\* the channel whose sequence number, as a number, is that of some entry of
\* the list ("9" is kept for the entry "0009"); an empty list keeps no file.
C21_RestrictedByNumber ==
    (Listed /\ versionFileList # None) =>
        \A k \in 1..Len(dir) :
            (dir[k].tag = Suffix /\ name_re(dir[k])) =>
                (InList(dir[k]) <=>
                    \E i \in 1..Len(versionFileList) :
                        versionFileList[i].v = dir[k].prefix.v)

\* the directory holds a file of the channel whose prefix is not a number
BadlyNamed == \E k \in 1..Len(dir) : dir[k].tag = Suffix /\ dir[k].prefix.v < 0

\* C25: a file of the channel whose prefix is not a number is left out of
\* the list without an exception, and the well named files are still listed
\* in ascending order.
C25_BadNameExcluded ==
    (pc = "cat_return" /\ BadlyNamed /\ versionFileList = None) =>
        /\ ~(ret = "raised" /\ outfile.opens = 0)
        /\ \A k \in 1..Len(dir) :
              (dir[k].tag = Suffix /\ name_re(dir[k])) => InList(dir[k])
        /\ \A i, j \in 1..Len(fileNames) :
              i < j => fileNames[i].prefix.v <= fileNames[j].prefix.v

----------------------------------------------------------------------------
(* Claims about the output sink *)

\* the sink has been opened once and not closed
SinkOpen == outfile.state = "open" /\ outfile.opens = 1 /\ outfile.closes = 0

\* the sink has been opened once and closed once
SinkReleased == outfile.state = "closed" /\ outfile.opens = 1 /\ outfile.closes = 1

\* C22: in one call of cat with a file list that is not empty the sink is
\* opened exactly once, before the first write; every write happens while it
\* is open; and it is closed exactly once when cat is left, by a return or by
\* an exception.
C22_Step ==
    /\ (outfile'.lines # outfile.lines) => SinkOpen
    /\ (pc' = "cat_loop") => SinkOpen'
    /\ (pc' = "cat_return" /\ Len(fileNames') > 0) => SinkReleased'
    /\ (pc' = "cat_return" /\ Len(fileNames') = 0) => outfile' = NoSink

C22_SinkOpenedAndClosedOnce == [][C22_Step]_vars

\* an exception has left cat after lines were written, and the sink is closed
C22_Witness ==
    /\ pc = "cat_return"
    /\ ret = "raised"
    /\ outfile.lines # <<>>
    /\ SinkReleased

----------------------------------------------------------------------------
(* Claims about the error log *)

\* the names of the files cat has gone through that failed, in list order
FailedNames ==
    LET idx == SelectSeq([i \in 1..Len(fileNames) |-> i],
                         LAMBDA i : i <= index /\ Failed(i))
    IN  [k \in 1..Len(idx) |-> Name(fileNames[idx[k]])]

\* C23: the first logged error creates error.txt and the later ones are
\* appended, so that the log holds the messages in the order they were
\* logged, one line for every file that was skipped as corrupt or fatal.
C23_OneLinePerFailedFile ==
    pc = "cat_return" => errorTxt = FailedNames

----------------------------------------------------------------------------
(* Claims about the jobs of the version groups *)

\* the sequence numbers getVersions gave to group g: with one group, the
\* numbers of all system-log files
GroupNumbers(g) ==
    IF Len(version) = 1
    THEN {fl.prefix.v : fl \in Range(SysFilesOf(dir))}
    ELSE {p.v : p \in Range(version[g].fileNumbers)}

\* C24: every job of a group that was resolved from system-log files
\* concatenates only files whose sequence number is among the group's file
\* numbers, also when the group is the only one of the run.
C24_OnlyFilesOfGroup ==
    SysFilesOf(dir) # <<>> =>
        \A k \in 1..Len(jobs) : \A i \in 1..Len(jobs[k].fileNames) :
            jobs[k].fileNames[i].prefix.v \in GroupNumbers(jobs[k].group)

\* the jobs of channel sfx whose file list holds fl
JobsHolding(sfx, fl) ==
    {k \in 1..Len(jobs) :
        jobs[k].suffix = sfx /\ \E i \in 1..Len(jobs[k].fileNames) :
                                    jobs[k].fileNames[i] = fl}

\* C30: when getVersions returned two or more groups, every data file of a
\* requested channel is concatenated by the job of exactly one group: none
\* is left out of all groups and none is taken by two.
C30_EveryFileInOneGroup ==
    (pc = "main_done" /\ Len(version) >= 2) =>
        \A s \in 1..Len(suffixes) : \A k \in 1..Len(dir) :
            (dir[k].tag = suffixes[s] /\ name_re(dir[k])) =>
                Cardinality(JobsHolding(suffixes[s], dir[k])) = 1

----------------------------------------------------------------------------
(* Claims about the ensemble counter of a spectral record *)

MaxCounterLines == 3

\* debug and production files of up to MaxCounterLines records
CounterFiles ==
    {File(Pfx(4, 1), "SPC", "CSV", TRUE, <<h>> \o q) :
        h \in {DebugHeader, ProductionHeader},
        q \in SeqsUpTo(SpcLines, MaxCounterLines)}

InitCounter ==
    /\ pc = "transform"
    /\ \E fl \in CounterFiles :
          /\ Idle(<<fl>>)
          /\ tr = [kind |-> "SPC", variant |-> modeDetection(fl).mode,
                   lines |-> fl.lines, i |-> 2, st |-> spcStart(fl, 1)]

SpecCounter == InitCounter /\ [][SpcLine]_vars

\* the tracked counter after a step that took c as the counter of the line
Tracked(line, c) ==
    IF tr.variant = "production" THEN c
    ELSE IF IsCC(line) \/ c < tr.st.ip THEN 0
    ELSE c

\* a record line with six fields or more is read and its counter, taken
\* from field n, is compared with the tracked counter and then tracked
CounterIsField(n) ==
    LET line == tr.lines[tr.i]
    IN  (tr.kind = "SPC" /\ tr.i <= Len(tr.lines) /\ tr'.i = tr.i + 1
            /\ IsRecord(line) /\ Len(line.f) >= 6 /\ ~tr'.st.raised)
        => tr'.st.ip = Tracked(line, line.f[n].v)

\* C28 as stated: the ensemble counter of a qualifying spectral record is
\* the integer between the 5th and the 6th comma of the line (the 6th field).
C28_SixthField == [][CounterIsField(6)]_vars

\* C28, amended: the ensemble counter of a qualifying spectral record is the
\* integer between the 4th and the 5th comma of the line (the 5th field,
\* ens_count).
C28_FifthField == [][CounterIsField(5)]_vars

\* a record whose 5th and 6th fields differ was read and its 5th field is
\* the tracked counter
C28_Witness ==
    /\ tr.kind = "SPC"
    /\ tr.i > 2
    /\ ~tr.st.raised
    /\ IsRecord(tr.lines[tr.i - 1])
    /\ Len(tr.lines[tr.i - 1].f) >= 6
    /\ tr.lines[tr.i - 1].f[5] # tr.lines[tr.i - 1].f[6]
    /\ tr.st.ip = tr.lines[tr.i - 1].f[5].v
    /\ tr.st.ip # 0

----------------------------------------------------------------------------
(* Claims about the groups getVersions returns *)

\* the file numbers of the groups, in group order
AllFileNumbers == Flatten([g \in 1..Len(version) |-> version[g].fileNumbers])

\* C26: with system-log files, the file numbers of the returned groups, in
\* group order, are the prefixes of the system-log files in ascending
\* sequence order, each once, and no group has an empty list.
C26_EveryPrefixInOneGroup ==
    (pc = "versions_ready" /\ SysFilesOf(dir) # <<>>) =>
        /\ Len(AllFileNumbers) = Len(SysFilesOf(dir))
        /\ Range(AllFileNumbers) = {fl.prefix : fl \in Range(SysFilesOf(dir))}
        /\ \A i, j \in 1..Len(AllFileNumbers) :
              i < j => AllFileNumbers[i].v <= AllFileNumbers[j].v
        /\ \A g \in 1..Len(version) : version[g].fileNumbers # <<>>

\* two groups were returned and the second holds two of three files
C26_Witness ==
    /\ pc = "versions_ready"
    /\ Len(version) = 2
    /\ Len(version[1].fileNumbers) = 1
    /\ Len(version[2].fileNumbers) = 2

\* one step of getVersions over a later system-log file without identifier
C27_Step ==
    LET fl == gvNames[gvIndex]
        sc == scanSys(fl)
    IN  (pc = "getVersions_loop" /\ pc' # "raised" /\ gvIndex' = gvIndex + 1
            /\ ~first /\ ~sc.foundSha)
        => /\ sha' = sha
           /\ version' = [version EXCEPT
                             ![Len(version)].fileNumbers = Append(@, fl.prefix)]

\* C27: a system-log file after the first in which no identifier is found
\* opens no group: its prefix is appended to the latest group whatever
\* weight type it declares, and the group's identifiers, class and weight
\* type stay as they were.
C27_NoIdentifierJoinsLatest == [][C27_Step]_vars

\* a later file without identifier that declares another weight type than
\* the latest group has joined that group
C27_Witness ==
    /\ pc \in {"getVersions_loop", "versions_ready"}
    /\ gvIndex > 2
    /\ ~scanSys(gvNames[gvIndex - 1]).foundSha
    /\ scanSys(gvNames[gvIndex - 1]).IIRWeightType # Last(version).IIRWeightType
    /\ Last(Last(version).fileNumbers) = gvNames[gvIndex - 1].prefix

\* C29: every identifier of a returned group has the group's compatibility
\* class, and two consecutive groups differ in class or in weight type.
C29_GroupsWellFormed ==
    pc = "versions_ready" =>
        /\ \A g \in 1..Len(version) : \A i \in 1..Len(version[g].sha) :
              /\ registered(version[g].sha[i])
              /\ compatibility(version[g].sha[i]) = version[g].number
        /\ \A g \in 1..(Len(version) - 1) :
              \/ version[g].number # version[g + 1].number
              \/ version[g].IIRWeightType # version[g + 1].IIRWeightType

\* two groups of one class that differ in weight type, the first holding
\* two identifiers
C29_Witness ==
    /\ pc = "versions_ready"
    /\ Len(version) = 2
    /\ Len(version[1].sha) = 2
    /\ version[1].number = version[2].number
    /\ version[1].IIRWeightType # version[2].IIRWeightType

====
